---------------------------- MODULE Spec2Model ----------------------------
(***************************************************************************)
(* Matchmaking server (src/server.js and its variants under src/unnamed):  *)
(* rating-based pairing of queued players, relay of session messages to    *)
(* the current opponent, close teardown and the heartbeat loop.            *)
(*                                                                         *)
(* Node runs every handler to completion on one thread, so each handler    *)
(* (connection, message, close, pong, interval callback) is one action.    *)
(* A Player object is created at most once per connection (the closure     *)
(* variable `player` is never reset), so players are named by the          *)
(* connection that owns them.                                              *)
(***************************************************************************)
EXTENDS Integers, Sequences, FiniteSets, TLC

\* ------------------------------------------------------------------ bounds
MaxConns == 3
MaxJoins == 3          \* players admitted in a run of SessionSpec or PairingSpec
MaxJoinsAll == 2       \* players admitted in a run of Spec or Part002Spec
MaxConnsAll == 2       \* connections opened in a run of Spec
MaxSilentTicks == 3    \* the count of timer ticks without a pong stops here
MaxSendFails == 1      \* sockets whose send throws
MaxTicksInHandler == 1 \* times the clock moves on while one handler runs

Conns == 1..MaxConns

\* ------------------------------------------------------- program constants
MAX_MMR_DIFF == 200
ALLOWANCE_CAP == 600
ALLOWANCE_PER_SECOND == 10
MS_PER_SECOND == 1000

\* ----------------------------------------------------------- value domains
NULL == 0                      \* JS null for an opponent reference
ABSENT == "<absent>"           \* a field the JS object literal does not have

\* Date.now() is a positive epoch value; the clock is sampled at instants.
FirstInstant == 1000
Instants == {1000, 64000}
PairingInstants == {1000, 3000, 4500, 64000}

\* JS values a client can put in msg.player_id / msg.mmr / msg.text / msg.sdp.
Str(s) == [t |-> "string", s |-> s]
NotAString == [t |-> "undefined", s |-> ""]
Num(n) == [t |-> "number", finite |-> TRUE, n |-> n]
\* 1e999 and -1e999, which JSON.parse reads as Infinity and -Infinity: n is
\* the sign.
NotFinite == [t |-> "number", finite |-> FALSE, n |-> 1]
NegInfinite == [t |-> "number", finite |-> FALSE, n |-> -1]
NotANumber == [t |-> "undefined", finite |-> FALSE, n |-> 0]

\* The identifier the client on connection c supplies: identifiers may be
\* empty and may repeat, the server checks neither.
ClientId(c) == IF c = 2 THEN "" ELSE IF c % 2 = 1 THEN "a" ELSE "b"

Ratings == {1000, 1200, 1850}
PairingRatings == {1000, 1200, 1250, 1850}
Part002Ratings == {1000, 1200}

\* The join_queue payloads connection c sends: <<msg.player_id, msg.mmr>>.
JoinInputs(c, R) ==
    {<<Str(ClientId(c)), Num(r)>> : r \in R}
    \cup {<<NotAString, Num(1000)>>,
          <<Str(ClientId(c)), NotFinite>>,
          <<Str(ClientId(c)), NotANumber>>}
TextInputs == {Str(""), Str("hi"), NotAString}
\* The number 5 as msg.sdp: a truthy value that is not a string.
SdpNumber == [t |-> "number", s |-> "5"]
SdpInputs == {Str(""), Str("0"), Str("v=0"), NotAString, SdpNumber}
SignalTypes == {"offer", "answer", "ice"}

\* if (v): false for undefined, the empty string and the number 0; the string
\* "0" is truthy.
Truthy(v) ==
    /\ v.t # "undefined"
    /\ IF v.t = "string" THEN v.s # "" ELSE v.s # "0"

VARIABLES
    readyState, \* readyState[c]: ws.readyState of connection c
    isAlive,    \* isAlive[c]: ws.isAlive, for the sockets in wss.clients
    player,     \* player[c]: the closure variable `player` of connection c
    queue,      \* the module-level array `queue`
    now,        \* Date.now()
    arrival,    \* history: connections in the order their players were admitted
    event,      \* history: the message, close or tick the last handler was given
    sent,       \* the ws.send calls made by the last handler, in order
    ticksSilent, \* history: ticksSilent[c], for the sockets in wss.clients: timer
                \* ticks the socket has seen since it opened or since its
                \* last pong (isAlive is false from the first of them on)
    sendFails   \* the sockets on which ws.send throws

vars == <<readyState, isAlive, player, queue, now, arrival, event, sent,
          ticksSilent, sendFails>>

\* ------------------------------------------------------------------ helpers
Abs(x) == IF x < 0 THEN -x ELSE x
Min(a, b) == IF a < b THEN a ELSE b
Range(s) == {s[i] : i \in 1..Len(s)}

NoPlayer == [joined |-> FALSE, player_id |-> "", mmr |-> 0,
             opponent |-> NULL, joinedAt |-> 0]

\* An object handed to ws.send. A field the object literal does not have is
\* ABSENT; sdp holds the JS value copied from the message, undefined when
\* none was copied (JSON.stringify leaves such a field out).
Msg(to, type, role, opponent, message, from, text, sdp) ==
    [to |-> to, type |-> type, role |-> role, opponent |-> opponent,
     message |-> message, from |-> from, text |-> text, sdp |-> sdp,
     raised |-> FALSE]

ErrorMsg(to, message) ==
    Msg(to, "error", ABSENT, ABSENT, message, ABSENT, ABSENT, NotAString)
MatchStart(to, role, opponent) ==
    Msg(to, "match_start", role, opponent, ABSENT, ABSENT, ABSENT, NotAString)
OpponentDisconnected(to) ==
    Msg(to, "opponent_disconnected", ABSENT, ABSENT, ABSENT, ABSENT, ABSENT, NotAString)
ChatMsg(to, from, text) ==
    Msg(to, "chat", ABSENT, ABSENT, ABSENT, from, text, NotAString)
SignalMsg(to, type, sdp) ==
    Msg(to, type, ABSENT, ABSENT, ABSENT, ABSENT, ABSENT, sdp)

\* An inbound event: its kind (msg.type, or "close"), its connection and what
\* the handler's checks see of its payload.
\* For a join_queue it also keeps the instants the handler read off the clock.
Event(kind, conn, payload) ==
    [kind |-> kind, conn |-> conn, payload |-> payload, reads |-> <<>>]
NoEvent == Event("none", NULL, "")

\* The receiver of connection c hands a frame to the "message" listener: the
\* socket is OPEN, or the handler of the previous frame of the same chunk has
\* just terminated it (terminate() does not stop the receiver's loop over a
\* chunk it has begun).
Receiving(c) ==
    \/ readyState[c] = "OPEN"
    \/ /\ readyState[c] = "CLOSING"
       /\ event.conn = c
       /\ event.kind \notin {"none", "close", "tick"}

\* safeSend: ws.send is not called unless the socket is OPEN; a call that
\* throws is recorded with raised = TRUE.
safeSend(rs, msg) ==
    IF rs[msg.to] = "OPEN"
    THEN <<[msg EXCEPT !.raised = msg.to \in sendFails]>>
    ELSE <<>>

\* A catch block that only logs the error (src/unnamed/part_002:37-39).
TerminatedNever(rs, calls) == rs

\* The catch block of safeSend: ws.terminate() on every socket whose send
\* threw, which stops being OPEN at once.
Terminated(rs, calls) ==
    [c \in Conns |->
        IF \E i \in 1..Len(calls) : calls[i].to = c /\ calls[i].raised
        THEN "CLOSING" ELSE rs[c]]

\* Number.POSITIVE_INFINITY, which JSON.parse yields for a literal such as
\* 1e999, and its negative for -1e999: beyond every finite rating, and
\* farther from each than any allowance.
Infinity == 1000000
IsInfinite(x) == x = Infinity \/ x = -Infinity

\* a.mmr - b.mmr is NaN when both are the same infinity.
DiffIsNaN(a, b) == IsInfinite(a.mmr) /\ a.mmr = b.mmr

\* Math.abs(a.mmr - b.mmr), where it is a number.
mmrDiff(a, b) == Abs(a.mmr - b.mmr)

\* An unstable sort: an element goes in front of the elements it ties with.
RECURSIVE InsertByMmrUnstable(_, _, _)
InsertByMmrUnstable(pl, s, c) ==
    IF s = <<>> THEN <<c>>
    ELSE IF pl[c].mmr - pl[s[Len(s)]].mmr > 0 THEN Append(s, c)
    ELSE Append(InsertByMmrUnstable(pl, SubSeq(s, 1, Len(s) - 1), c), s[Len(s)])

\* Array.prototype.sort with (a, b) => a.mmr - b.mmr: stable, ascending.
RECURSIVE InsertByMmr(_, _, _)
InsertByMmr(pl, s, c) ==
    IF s = <<>> THEN <<c>>
    ELSE IF pl[c].mmr - pl[s[Len(s)]].mmr >= 0 THEN Append(s, c)
    ELSE Append(InsertByMmr(pl, SubSeq(s, 1, Len(s) - 1), c), s[Len(s)])

\* A sort that was left out: the queue is scanned in arrival order.
SortByMmrMissing(pl, s) == s

RECURSIVE SortByMmr(_, _)
SortByMmr(pl, s) ==
    IF s = <<>> THEN <<>>
    ELSE InsertByMmr(pl, SortByMmr(pl, SubSeq(s, 1, Len(s) - 1)), s[Len(s)])

\* Math.floor((Date.now() - (p.joinedAt || Date.now())) / 1000)
WaitSeconds(p, t) ==
    (t - (IF p.joinedAt = 0 THEN t ELSE p.joinedAt)) \div MS_PER_SECOND

\* An allowance that grows without the cap.
DynamicAllowanceUncapped(p1, p2, t1, t2) ==
    (WaitSeconds(p1, t1) + WaitSeconds(p2, t2)) * ALLOWANCE_PER_SECOND

\* wait1 and wait2 are computed one after the other, each from its own
\* Date.now(): t1 is the instant read for p1, t2 the one read for p2.
DynamicAllowance(p1, p2, t1, t2) ==
    Min(ALLOWANCE_CAP,
        (WaitSeconds(p1, t1) + WaitSeconds(p2, t2)) * ALLOWANCE_PER_SECOND)

Allowed(p1, p2, t1, t2) == MAX_MMR_DIFF + DynamicAllowance(p1, p2, t1, t2)

\* The comparison with < for <=.
QualifiesStrict(p1, p2, t1, t2) ==
    ~DiffIsNaN(p1, p2) /\ mmrDiff(p1, p2) < Allowed(p1, p2, t1, t2)

\* mmrDiff(p1, p2) <= allowed, which is false when the difference is NaN.
Qualifies(p1, p2, t1, t2) ==
    ~DiffIsNaN(p1, p2) /\ mmrDiff(p1, p2) <= Allowed(p1, p2, t1, t2)

\* A scan that returns the last qualifying index instead of the first.
MatchIndexLast(pl, q, reads) ==
    LET hits == {i \in 1..(Len(q) - 1) :
                    Qualifies(pl[q[i]], pl[q[i + 1]], reads[2 * i - 1], reads[2 * i])}
    IN IF hits = {} THEN 0 ELSE CHOOSE i \in hits : \A j \in hits : i >= j

\* The index at which the for loop of attemptMatch returns, 0 when it runs
\* out. Iteration i reads the clock twice: reads[2i - 1] for wait1 and
\* reads[2i] for wait2; the reads after the returning iteration are not made.
MatchIndex(pl, q, reads) ==
    LET hits == {i \in 1..(Len(q) - 1) :
                    Qualifies(pl[q[i]], pl[q[i + 1]], reads[2 * i - 1], reads[2 * i])}
    IN IF hits = {} THEN 0 ELSE CHOOSE i \in hits : \A j \in hits : i <= j

\* splice(i, 1): only the first of the pair leaves the queue.
Splice2OnlyOne(q, i) == SubSeq(q, 1, i - 1) \o SubSeq(q, i + 1, Len(q))

\* queue.splice(i, 2)
Splice2(q, i) == SubSeq(q, 1, i - 1) \o SubSeq(q, i + 2, Len(q))

\* Only the first assignment: p1.opponent = p2.
SetOpponentsOneWay(pl, p1, p2) == [pl EXCEPT ![p1].opponent = p2]

\* p1.opponent = p2; p2.opponent = p1;
SetOpponents(pl, p1, p2) ==
    [pl EXCEPT ![p1].opponent = p2, ![p2].opponent = p1]

\* attemptMatch(): the queue, the players, the sends and the pair it leaves,
\* and how many times it read the clock.
attemptMatch(rs, pl, q, reads) ==
    IF Len(q) < 2
    THEN [queue |-> q, player |-> pl, sent |-> <<>>, pair |-> <<>>, read |-> 0]
    ELSE LET sorted == SortByMmr(pl, q)
             i == MatchIndex(pl, sorted, reads)
         IN IF i = 0
            THEN [queue |-> sorted, player |-> pl, sent |-> <<>>, pair |-> <<>>,
                  read |-> 2 * (Len(q) - 1)]
            ELSE LET p1 == sorted[i]
                     p2 == sorted[i + 1]
                 IN [queue |-> Splice2(sorted, i),
                     player |-> SetOpponents(pl, p1, p2),
                     sent |-> safeSend(rs, MatchStart(p1, "host", pl[p2].player_id))
                              \o safeSend(rs, MatchStart(p2, "client", pl[p1].player_id)),
                     pair |-> <<p1, p2>>, read |-> 2 * i]

\* ------------------------------------------------------------------ actions
Init ==
    /\ readyState = [c \in Conns |-> "NONE"]
    /\ isAlive = <<>>
    /\ player = [c \in Conns |-> NoPlayer]
    /\ queue = <<>>
    /\ now = FirstInstant
    /\ arrival = <<>>
    /\ event = NoEvent
    /\ sent = <<>>
    /\ ticksSilent = <<>>
    /\ sendFails = {}

\* wss.on("connection"): connections are numbered in the order they open.
Connect(c) ==
    /\ event' = NoEvent
    /\ readyState[c] = "NONE"
    /\ \A d \in Conns : d < c => readyState[d] # "NONE"
    /\ readyState' = [readyState EXCEPT ![c] = "OPEN"]
    /\ isAlive' = (c :> TRUE) @@ isAlive
    /\ ticksSilent' = (c :> 0) @@ ticksSilent
    /\ sent' = <<>>
    /\ UNCHANGED <<player, queue, now, arrival, sendFails>>

\* A check that lets a player without an opponent join again.
AlreadyJoinedWhilePaired(pl, c) == pl[c].joined /\ pl[c].opponent # NULL

\* if (player): the connection has created its Player.
AlreadyJoined(pl, c) == pl[c].joined

\* The payload check of join_queue.
ValidJoin(id, mmr) == id.t = "string" /\ mmr.t = "number" /\ mmr.finite

\* The event of a join_queue with the clock reads its handler made.
JoinEvent(c, payload, reads) ==
    [Event("join_queue", c, payload) EXCEPT !.reads = reads]

\* ws.on("message") with msg.type === "join_queue". clock holds what the
\* successive calls of Date.now() return: clock[1] at joinedAt, the rest in
\* attemptMatch; the clock stands at the last instant read.
JoinQueue(c, id, mmr, clock) ==
    /\ Receiving(c)
    /\ IF AlreadyJoined(player, c)
       THEN /\ sent' = safeSend(readyState, ErrorMsg(c, "already joined"))
            /\ event' = JoinEvent(c, IF ValidJoin(id, mmr) THEN "valid" ELSE "invalid", <<>>)
            /\ UNCHANGED <<player, queue, arrival, now>>
       ELSE IF ~ValidJoin(id, mmr)
       THEN /\ sent' = safeSend(readyState, ErrorMsg(c, "invalid join_queue payload"))
            /\ event' = JoinEvent(c, "invalid", <<>>)
            /\ UNCHANGED <<player, queue, arrival, now>>
       ELSE /\ LET created == [joined |-> TRUE, player_id |-> id.s, mmr |-> mmr.n,
                               opponent |-> NULL, joinedAt |-> clock[1]]
                   pl == [player EXCEPT ![c] = created]
                   m == attemptMatch(readyState, pl, Append(queue, c), Tail(clock))
               IN /\ player' = m.player
                  /\ queue' = m.queue
                  /\ sent' = m.sent
                  /\ now' = clock[1 + m.read]
                  /\ event' = JoinEvent(c, "valid", SubSeq(clock, 1, 1 + m.read))
            /\ arrival' = Append(arrival, c)
    /\ readyState' = Terminated(readyState, sent')
    /\ UNCHANGED <<isAlive, ticksSilent, sendFails>>

\* ws.on("message") with msg.type "offer" | "answer" | "ice" (src/server.js):
\* forwarded to the opponent when its socket is OPEN, else an error to the sender.
\* A field is copied when its value is truthy, shown here on sdp.
Signal(c, type, sdp) ==
    /\ event' = Event(type, c, sdp.t)
    /\ Receiving(c)
    /\ LET o == player[c].opponent
       IN sent' = IF player[c].joined /\ o # NULL /\ readyState[o] = "OPEN"
                  THEN safeSend(readyState, SignalMsg(o, type,
                                    IF Truthy(sdp) THEN sdp ELSE NotAString))
                  ELSE safeSend(readyState, ErrorMsg(c, "no opponent to forward to"))
    /\ readyState' = Terminated(readyState, sent')
    /\ UNCHANGED <<isAlive, player, queue, now, arrival, ticksSilent, sendFails>>

\* ws.on("message") of src/server.js with msg.type === "chat": the type
\* matches none of the branches and the handler ends without a send.
ChatIgnored(c, text) ==
    /\ event' = Event("chat", c, text.t)
    /\ Receiving(c)
    /\ sent' = <<>>
    /\ UNCHANGED <<readyState, isAlive, player, queue, now, arrival, ticksSilent,
                   sendFails>>

\* A chat handler that, for a sender without opponent, hands the text to
\* every other open connection.
ChatReplyBroadcast(rs, pl, c, text) ==
    LET o == pl[c].opponent
        RECURSIVE ToAll(_)
        ToAll(d) == IF d = 0 THEN <<>>
                    ELSE ToAll(d - 1) \o
                         (IF d # c THEN safeSend(rs, ChatMsg(d, pl[c].player_id, text.s))
                          ELSE <<>>)
    IN IF text.t # "string"
       THEN safeSend(rs, ErrorMsg(c, "invalid chat text"))
       ELSE IF pl[c].joined /\ o # NULL /\ rs[o] = "OPEN"
       THEN safeSend(rs, ChatMsg(o, pl[c].player_id, text.s))
       ELSE ToAll(MaxConns)

\* ws.on("message") with msg.type === "chat" (src/unnamed/part_001): the text
\* is validated first, then the opponent and its socket.
ChatReply(rs, pl, c, text) ==
    LET o == pl[c].opponent
    IN IF text.t # "string"
       THEN safeSend(rs, ErrorMsg(c, "invalid chat text"))
       ELSE IF pl[c].joined /\ o # NULL /\ rs[o] = "OPEN"
       THEN safeSend(rs, ChatMsg(o, pl[c].player_id, text.s))
       ELSE safeSend(rs, ErrorMsg(c, "no opponent to forward chat to"))

Chat(c, text) ==
    /\ event' = Event("chat", c, text.t)
    /\ Receiving(c)
    /\ sent' = ChatReply(readyState, player, c, text)
    /\ readyState' = Terminated(readyState, sent')
    /\ UNCHANGED <<isAlive, player, queue, now, arrival, ticksSilent, sendFails>>

\* The same message in src/unnamed/part_002: the opponent is checked first
\* (not its socket), then the text, which must also be non-empty.
ChatReplyOpponentFirst(rs, pl, c, text) ==
    LET o == pl[c].opponent
    IN IF ~pl[c].joined \/ o = NULL
       THEN safeSend(rs, ErrorMsg(c, "No opponent to forward chat"))
       ELSE IF text.t # "string" \/ text.s = ""
       THEN safeSend(rs, ErrorMsg(c, "Invalid chat text"))
       ELSE safeSend(rs, ChatMsg(o, pl[c].player_id, text.s))

ChatOpponentFirst(c, text) ==
    /\ event' = Event("chat", c, text.t)
    /\ Receiving(c)
    /\ sent' = ChatReplyOpponentFirst(readyState, player, c, text)
    /\ readyState' = TerminatedNever(readyState, sent')
    /\ UNCHANGED <<isAlive, player, queue, now, arrival, ticksSilent, sendFails>>

\* The peer goes away (close frame, socket error): the socket stops being
\* OPEN at once, its "close" event is emitted on a later turn of the loop.
Closing(c) ==
    /\ event' = NoEvent
    /\ readyState[c] = "OPEN"
    /\ readyState' = [readyState EXCEPT ![c] = "CLOSING"]
    /\ sent' = <<>>
    /\ UNCHANGED <<isAlive, player, queue, now, arrival, ticksSilent, sendFails>>

\* A teardown that tells the opponent but leaves its opponent reference.
TeardownNoClear(rs, pl, q, c) ==
    LET o == pl[c].opponent
        filtered == SelectSeq(q, LAMBDA p : p # c)
    IN IF pl[c].joined /\ o # NULL /\ rs[o] = "OPEN"
       THEN [queue |-> filtered,
             sent |-> safeSend(rs, OpponentDisconnected(o)),
             player |-> pl]
       ELSE [queue |-> filtered, sent |-> <<>>, player |-> pl]

\* A teardown that puts the surviving opponent back in the queue.
TeardownRequeue(rs, pl, q, c) ==
    LET o == pl[c].opponent
        filtered == SelectSeq(q, LAMBDA p : p # c)
    IN IF pl[c].joined /\ o # NULL /\ rs[o] = "OPEN"
       THEN [queue |-> Append(filtered, o),
             sent |-> safeSend(rs, OpponentDisconnected(o)),
             player |-> [pl EXCEPT ![o].opponent = NULL]]
       ELSE [queue |-> filtered, sent |-> <<>>, player |-> pl]

\* A teardown that leaves the player of the closed connection in the queue.
TeardownKeepsQueued(rs, pl, q, c) ==
    LET o == pl[c].opponent
    IN IF pl[c].joined /\ o # NULL /\ rs[o] = "OPEN"
       THEN [queue |-> q,
             sent |-> safeSend(rs, OpponentDisconnected(o)),
             player |-> [pl EXCEPT ![o].opponent = NULL]]
       ELSE [queue |-> q, sent |-> <<>>, player |-> pl]

\* ws.on("close"): drop the player from the queue; tell an opponent whose
\* socket is OPEN and clear its opponent reference.
Teardown(rs, pl, q, c) ==
    LET o == pl[c].opponent
        filtered == SelectSeq(q, LAMBDA p : p # c)
    IN IF pl[c].joined /\ o # NULL /\ rs[o] = "OPEN"
       THEN [queue |-> filtered,
             sent |-> safeSend(rs, OpponentDisconnected(o)),
             player |-> [pl EXCEPT ![o].opponent = NULL]]
       ELSE [queue |-> filtered, sent |-> <<>>, player |-> pl]

\* The "close" event of connection c: the socket leaves wss.clients and the
\* close handler runs.
OnClose(c) ==
    /\ event' = Event("close", c, "")
    /\ readyState[c] = "CLOSING"
    /\ isAlive' = [d \in (DOMAIN isAlive) \ {c} |-> isAlive[d]]
    /\ LET d == Teardown(readyState, player, queue, c)
       IN /\ queue' = d.queue
          /\ sent' = d.sent
          /\ player' = d.player
    /\ ticksSilent' = [d \in (DOMAIN ticksSilent) \ {c} |-> ticksSilent[d]]
    /\ readyState' = Terminated([readyState EXCEPT ![c] = "CLOSED"], sent')
    /\ UNCHANGED <<now, arrival, sendFails>>

\* A pong handler that does not mark the socket alive.
PongIgnored(c) ==
    /\ event' = Event("pong", c, "")
    /\ Receiving(c)
    /\ ticksSilent' = [ticksSilent EXCEPT ![c] = 0]
    /\ sent' = <<>>
    /\ UNCHANGED <<readyState, isAlive, player, queue, now, arrival, sendFails>>

\* ws.on("pong"): a pong frame is handed to its listener as the frames of
\* messages are.
Pong(c) ==
    /\ event' = Event("pong", c, "")
    /\ Receiving(c)
    /\ isAlive' = [isAlive EXCEPT ![c] = TRUE]
    /\ ticksSilent' = [ticksSilent EXCEPT ![c] = 0]
    /\ sent' = <<>>
    /\ UNCHANGED <<readyState, player, queue, now, arrival, sendFails>>

\* wss.clients: sockets whose "close" event has not been emitted yet.
Clients == DOMAIN isAlive

\* An interval callback that marks and pings but never terminates.
HeartbeatNoTerminate ==
    /\ Clients # {}
    /\ event' = Event("tick", NULL, "")
    /\ isAlive' = [c \in Clients |-> FALSE]
    /\ ticksSilent' = [c \in Clients |-> Min(MaxSilentTicks, ticksSilent[c] + 1)]
    /\ sent' = <<>>
    /\ UNCHANGED <<readyState, player, queue, now, arrival, sendFails>>

\* An interval callback that terminates a socket at the first tick it sees.
HeartbeatNoGrace ==
    /\ Clients # {}
    /\ event' = Event("tick", NULL, "")
    /\ readyState' = [c \in Conns |->
                        IF c \in Clients THEN "CLOSING" ELSE readyState[c]]
    /\ isAlive' = [c \in Clients |-> FALSE]
    /\ ticksSilent' = [c \in Clients |-> Min(MaxSilentTicks, ticksSilent[c] + 1)]
    /\ sent' = <<>>
    /\ UNCHANGED <<player, queue, now, arrival, sendFails>>

\* The setInterval callback: terminate() every socket whose last probe went
\* unanswered, mark and ping the others.
Heartbeat ==
    /\ Clients # {}
    /\ event' = Event("tick", NULL, "")
    /\ readyState' = [c \in Conns |->
                        IF c \in Clients /\ isAlive[c] = FALSE
                        THEN "CLOSING" ELSE readyState[c]]
    /\ isAlive' = [c \in Clients |-> FALSE]
    /\ ticksSilent' = [c \in Clients |-> Min(MaxSilentTicks, ticksSilent[c] + 1)]
    /\ sent' = <<>>
    /\ UNCHANGED <<player, queue, now, arrival, sendFails>>

\* The sampled instant that follows t, t itself when there is none.
NextInstant(T, t) ==
    IF \E u \in T : u > t
    THEN CHOOSE u \in T : u > t /\ \A v \in T : v > t => u <= v
    ELSE t

\* What n successive calls of Date.now() can return when the clock stands at
\* t and moves on at most k times, each time to the next sampled instant.
RECURSIVE ClockFrom(_, _, _, _)
ClockFrom(T, n, t, k) ==
    IF n = 0 THEN {<<>>}
    ELSE UNION {{<<u>> \o rest : rest \in ClockFrom(T, n - 1, u, IF u = t THEN k ELSE k - 1)} :
                  u \in {t} \cup (IF k > 0 THEN {NextInstant(T, t)} ELSE {})}

\* The reads of one join_queue handler: one for joinedAt and two for each
\* adjacent pair of the longest queue.
ClockLen == 2 * MaxJoins - 1
Clocks(T) == ClockFrom(T, ClockLen, now, MaxTicksInHandler)

\* A clock that does not move while the handler runs.
StillClock == [i \in 1..ClockLen |-> now]

\* The clock moves on, between handlers, to the next sampled instant.
AdvanceTime(T, t) ==
    /\ t \in T
    /\ t > now
    /\ \A u \in T : ~(now < u /\ u < t)
    /\ now' = t
    /\ event' = NoEvent
    /\ sent' = <<>>
    /\ UNCHANGED <<readyState, isAlive, player, queue, arrival, ticksSilent, sendFails>>

\* Text frames by what JSON.parse makes of them: a syntax error, the values
\* null, 7 and "x", an object without a type, an object of an unknown type.
RawInputs == {"bad json", "null", "number", "string", "no type", "unknown type"}

\* Reading msg.type, the first thing the handler of src/server.js does with a
\* parsed value: a property read on null throws a TypeError, on a number or a
\* string it yields undefined.
TypeRead(raw) ==
    IF raw = "null" THEN "throws"
    ELSE IF raw = "unknown type" THEN "other"
    ELSE "undefined"

\* An exception that leaves a listener of the socket is uncaught: the file
\* installs no handler for it, so the process exits and with it every socket,
\* the queue and the players.
ProcessExit ==
    /\ readyState' = [d \in Conns |-> "EXITED"]
    /\ isAlive' = <<>>
    /\ ticksSilent' = <<>>
    /\ player' = [d \in Conns |-> NoPlayer]
    /\ queue' = <<>>
    /\ sent' = <<>>

\* ws.on("message") of src/server.js for a frame that is none of the messages
\* above: a syntax error is logged and dropped inside the try; otherwise
\* msg.type is compared with the known types outside any try.
RawMessage(c, raw) ==
    /\ event' = Event("raw", c, raw)
    /\ Receiving(c)
    /\ IF raw # "bad json" /\ TypeRead(raw) = "throws"
       THEN ProcessExit
       ELSE /\ sent' = <<>>
            /\ UNCHANGED <<readyState, isAlive, ticksSilent, player, queue>>
    /\ UNCHANGED <<now, arrival, sendFails>>

\* The same frames in src/unnamed/part_001, which tests
\* !msg || typeof msg.type !== 'string' before anything else and ends with an
\* error for a type it does not know.
RawMessageChecked(c, raw) ==
    /\ event' = Event("raw", c, raw)
    /\ Receiving(c)
    /\ sent' = IF raw = "bad json" THEN <<>>
               ELSE IF raw = "unknown type"
               THEN safeSend(readyState, ErrorMsg(c, "unknown message type"))
               ELSE safeSend(readyState, ErrorMsg(c, "invalid message format"))
    /\ readyState' = Terminated(readyState, sent')
    /\ UNCHANGED <<isAlive, ticksSilent, player, queue, now, arrival, sendFails>>

\* The socket of connection c starts to throw on send while it still reads
\* OPEN; at most MaxSendFails sockets do.
BreakSend(c) ==
    /\ readyState[c] = "OPEN"
    /\ c \notin sendFails
    /\ Cardinality(sendFails) < MaxSendFails
    /\ sendFails' = sendFails \cup {c}
    /\ event' = NoEvent
    /\ sent' = <<>>
    /\ UNCHANGED <<readyState, isAlive, player, queue, now, arrival, ticksSilent>>

\* At most k players are admitted in a run; a connection that has a player
\* can always send join_queue again.
MayJoin(c, k) == player[c].joined \/ Len(arrival) < k

Next ==
    \/ \E c \in 1..MaxConnsAll : Connect(c)
    \/ \E c \in Conns : \E m \in JoinInputs(c, Ratings), clock \in Clocks(Instants) :
           MayJoin(c, MaxJoinsAll) /\ JoinQueue(c, m[1], m[2], clock)
    \/ \E c \in Conns, type \in SignalTypes, sdp \in SdpInputs : Signal(c, type, sdp)
    \/ \E c \in Conns, text \in TextInputs : ChatIgnored(c, text)
    \/ \E c \in Conns, raw \in RawInputs : RawMessage(c, raw)
    \/ \E c \in Conns : Closing(c)
    \/ \E c \in Conns : OnClose(c)
    \/ \E c \in Conns : Pong(c)
    \/ Heartbeat
    \/ \E t \in Instants : AdvanceTime(Instants, t)

Spec == Init /\ [][Next]_vars

\* The handlers that read or write the queue, the players and the clock, with
\* more players, ratings and instants, and clients that send one well-formed
\* join_queue each. Relay messages and pongs change none of these, and the
\* heartbeat changes them only by making sockets CLOSING, as Closing does.
PairingNext ==
    \/ \E c \in Conns : Connect(c)
    \/ \E c \in Conns, r \in PairingRatings :
           /\ ~player[c].joined
           /\ Len(arrival) < MaxJoins
           /\ \E clock \in Clocks(PairingInstants) :
                  JoinQueue(c, Str(ClientId(c)), Num(r), clock)
    \/ \E c \in Conns : Closing(c)
    \/ \E c \in Conns : OnClose(c)
    \/ \E t \in PairingInstants : AdvanceTime(PairingInstants, t)

PairingSpec == Init /\ [][PairingNext]_vars

\* The message and close handlers with every payload, without the clock and
\* the heartbeat: pongs change only isAlive, which these handlers never read,
\* and a heartbeat changes readyState only as Closing does.
SessionNext ==
    \/ \E c \in Conns : Connect(c)
    \/ \E c \in Conns : \E m \in JoinInputs(c, Ratings) :
           MayJoin(c, MaxJoins) /\ JoinQueue(c, m[1], m[2], StillClock)
    \/ \E c \in Conns, type \in SignalTypes, sdp \in SdpInputs : Signal(c, type, sdp)
    \/ \E c \in Conns, text \in TextInputs : ChatIgnored(c, text)
    \/ \E c \in Conns, raw \in RawInputs : RawMessage(c, raw)
    \/ \E c \in Conns : Closing(c)
    \/ \E c \in Conns : OnClose(c)

SessionSpec == Init /\ [][SessionNext]_vars

\* ------------------------------------------- src/unnamed/part_001 handlers
\* ws.on("message") with msg.type === "join_queue" in part_001: the handler of
\* src/server.js, but the loop of attemptMatch reads the clock once per pair
\* (const now = Date.now()) and uses that instant for both waits. clock[1] is
\* read at joinedAt, clock[1 + i] by iteration i. The ENet and UDP fields of
\* its match_start are left out.
JoinQueuePerPair(c, id, mmr, clock) ==
    /\ Receiving(c)
    /\ IF AlreadyJoined(player, c)
       THEN /\ sent' = safeSend(readyState, ErrorMsg(c, "already joined"))
            /\ event' = JoinEvent(c, IF ValidJoin(id, mmr) THEN "valid" ELSE "invalid", <<>>)
            /\ UNCHANGED <<player, queue, arrival, now>>
       ELSE IF ~ValidJoin(id, mmr)
       THEN /\ sent' = safeSend(readyState, ErrorMsg(c, "invalid join_queue payload"))
            /\ event' = JoinEvent(c, "invalid", <<>>)
            /\ UNCHANGED <<player, queue, arrival, now>>
       ELSE /\ LET created == [joined |-> TRUE, player_id |-> id.s, mmr |-> mmr.n,
                               opponent |-> NULL, joinedAt |-> clock[1]]
                   pl == [player EXCEPT ![c] = created]
                   m == attemptMatch(readyState, pl, Append(queue, c),
                                     [k \in 1..(2 * (MaxJoins - 1)) |->
                                         clock[1 + (k + 1) \div 2]])
                   used == 1 + m.read \div 2
               IN /\ player' = m.player
                  /\ queue' = m.queue
                  /\ sent' = m.sent
                  /\ now' = clock[used]
                  /\ event' = JoinEvent(c, "valid", SubSeq(clock, 1, used))
            /\ arrival' = Append(arrival, c)
    /\ readyState' = Terminated(readyState, sent')
    /\ UNCHANGED <<isAlive, ticksSilent, sendFails>>

\* The server of part_001: it forwards chat and knows no signaling type.
Part001Next ==
    \/ \E c \in Conns : Connect(c)
    \/ \E c \in Conns : \E m \in JoinInputs(c, Ratings) :
           MayJoin(c, MaxJoins) /\ JoinQueuePerPair(c, m[1], m[2], StillClock)
    \/ \E c \in Conns, text \in TextInputs : Chat(c, text)
    \/ \E c \in Conns, raw \in RawInputs : RawMessageChecked(c, raw)
    \/ \E c \in Conns : Closing(c)
    \/ \E c \in Conns : OnClose(c)

Part001Spec == Init /\ [][Part001Next]_vars

\* ------------------------------------------- src/unnamed/part_002 handlers
\* What a join_queue payload is, for the event history.
JoinPayload(id, mmr) ==
    IF id.t # "string" THEN "no identifier"
    ELSE IF mmr.t # "number" THEN "no rating"
    ELSE IF ~mmr.finite THEN "infinite rating"
    ELSE "valid"

\* The payload check of join_queue in part_002: the two typeof tests only.
ValidJoinTypeOnly(id, mmr) == id.t = "string" /\ mmr.t = "number"

\* ws.on("message") with msg.type === "join_queue" in part_002; its safeSend
\* only logs a send that throws. Its attemptMatch reads the clock once, before
\* the loop: clock[1] is read at joinedAt, clock[2] by the pass.
JoinQueueTypeOnly(c, id, mmr, clock) ==
    /\ Receiving(c)
    /\ IF AlreadyJoined(player, c)
       THEN /\ sent' = safeSend(readyState, ErrorMsg(c, "already joined"))
            /\ event' = JoinEvent(c, JoinPayload(id, mmr), <<>>)
            /\ UNCHANGED <<player, queue, arrival, now>>
       ELSE IF ~ValidJoinTypeOnly(id, mmr)
       THEN /\ sent' = safeSend(readyState, ErrorMsg(c, "invalid join_queue payload"))
            /\ event' = JoinEvent(c, JoinPayload(id, mmr), <<>>)
            /\ UNCHANGED <<player, queue, arrival, now>>
       ELSE /\ LET created == [joined |-> TRUE, player_id |-> id.s,
                               mmr |-> IF mmr.finite THEN mmr.n ELSE mmr.n * Infinity,
                               opponent |-> NULL, joinedAt |-> clock[1]]
                   pl == [player EXCEPT ![c] = created]
                   m == attemptMatch(readyState, pl, Append(queue, c),
                                     [i \in 1..(ClockLen - 1) |-> clock[2]])
                   used == IF m.read = 0 THEN 1 ELSE 2
               IN /\ player' = m.player
                  /\ queue' = m.queue
                  /\ sent' = m.sent
                  /\ now' = clock[used]
                  /\ event' = JoinEvent(c, JoinPayload(id, mmr), SubSeq(clock, 1, used))
            /\ arrival' = Append(arrival, c)
    /\ readyState' = TerminatedNever(readyState, sent')
    /\ UNCHANGED <<isAlive, ticksSilent, sendFails>>

\* Frames that are none of its messages, in part_002: a syntax error is
\* answered; if (!msg.type) return throws on null and drops what has no type;
\* the handler ends with an error for a type it does not know.
RawMessageTypeFirst(c, raw) ==
    /\ event' = Event("raw", c, raw)
    /\ Receiving(c)
    /\ IF raw # "bad json" /\ TypeRead(raw) = "throws"
       THEN ProcessExit
       ELSE /\ sent' = IF raw = "bad json"
                       THEN safeSend(readyState, ErrorMsg(c, "Invalid JSON"))
                       ELSE IF raw = "unknown type"
                       THEN safeSend(readyState, ErrorMsg(c, "Unknown message type"))
                       ELSE <<>>
            /\ readyState' = TerminatedNever(readyState, sent')
            /\ UNCHANGED <<isAlive, ticksSilent, player, queue>>
    /\ UNCHANGED <<now, arrival, sendFails>>

\* The messages part_002 answers to their sender.
EchoKinds == {"ping_client_server", "ping_host_server", "latency_request"}

\* The type of the answer.
EchoType(kind) ==
    IF kind = "ping_client_server" THEN "pong_client_server"
    ELSE IF kind = "ping_host_server" THEN "pong_host_server"
    ELSE "latency_reply"

\* The answer; its timestamp, copied from the message, is left out.
EchoMsg(to, type) ==
    Msg(to, type, ABSENT, ABSENT, ABSENT, ABSENT, ABSENT, NotAString)

\* ping_client_server, ping_host_server, latency_request in part_002.
Echo(c, kind) ==
    /\ event' = Event(kind, c, "")
    /\ Receiving(c)
    /\ sent' = safeSend(readyState, EchoMsg(c, EchoType(kind)))
    /\ readyState' = TerminatedNever(readyState, sent')
    /\ UNCHANGED <<isAlive, player, queue, now, arrival, ticksSilent, sendFails>>

\* The messages part_002 forwards besides chat.
RelayKinds == {"game_update", "latency_request_to_host", "latency_reply_to_client"}

\* The type under which a relayed message reaches the opponent.
ForwardedType(kind) ==
    IF kind = "latency_request_to_host" THEN "relay_latency_to_host"
    ELSE IF kind = "latency_reply_to_client" THEN "relay_latency_to_client"
    ELSE kind

\* The error a relay answers when the sender has no opponent.
NoOpponentText(kind) ==
    IF kind = "latency_request_to_host" THEN "No host/client available"
    ELSE IF kind = "latency_reply_to_client" THEN "No opponent to relay to"
    ELSE "no opponent to forward update to"

RelayedMsg(to, type, from) ==
    Msg(to, type, ABSENT, ABSENT, ABSENT, from, ABSENT, NotAString)

\* game_update, latency_request_to_host, latency_reply_to_client in part_002:
\* only the opponent reference is checked, safeSend does the rest.
RelayReply(rs, pl, c, kind) ==
    LET o == pl[c].opponent
    IN IF ~pl[c].joined \/ o = NULL
       THEN safeSend(rs, ErrorMsg(c, NoOpponentText(kind)))
       ELSE safeSend(rs, RelayedMsg(o, ForwardedType(kind),
                         IF kind = "latency_reply_to_client" THEN ABSENT
                         ELSE pl[c].player_id))

Relay(c, kind) ==
    /\ event' = Event(kind, c, "")
    /\ Receiving(c)
    /\ sent' = RelayReply(readyState, player, c, kind)
    /\ readyState' = TerminatedNever(readyState, sent')
    /\ UNCHANGED <<isAlive, player, queue, now, arrival, ticksSilent, sendFails>>

\* ws.on("close") in part_002: the opponent's reference is cleared whatever
\* the state of its socket.
TeardownUnchecked(rs, pl, q, c) ==
    LET o == pl[c].opponent
        filtered == SelectSeq(q, LAMBDA p : p # c)
    IN IF pl[c].joined /\ o # NULL
       THEN [queue |-> filtered,
             sent |-> safeSend(rs, OpponentDisconnected(o)),
             player |-> [pl EXCEPT ![o].opponent = NULL]]
       ELSE [queue |-> filtered, sent |-> <<>>, player |-> pl]

OnCloseUnchecked(c) ==
    /\ event' = Event("close", c, "")
    /\ readyState[c] = "CLOSING"
    /\ isAlive' = [d \in (DOMAIN isAlive) \ {c} |-> isAlive[d]]
    /\ LET d == TeardownUnchecked(readyState, player, queue, c)
       IN /\ queue' = d.queue
          /\ sent' = d.sent
          /\ player' = d.player
    /\ ticksSilent' = [d \in (DOMAIN ticksSilent) \ {c} |-> ticksSilent[d]]
    /\ readyState' = TerminatedNever([readyState EXCEPT ![c] = "CLOSED"], sent')
    /\ UNCHANGED <<now, arrival, sendFails>>

\* The join_queue payloads sent to part_002: those above and a rating of
\* -1e999.
Part002JoinInputs(c) ==
    JoinInputs(c, Part002Ratings) \cup {<<Str(ClientId(c)), NegInfinite>>}

\* The server of part_002.
Part002Next ==
    \/ \E c \in Conns : Connect(c)
    \/ \E c \in Conns : \E m \in Part002JoinInputs(c) :
           /\ MayJoin(c, MaxJoinsAll)
           /\ JoinQueueTypeOnly(c, m[1], m[2], StillClock)
    \/ \E c \in Conns, raw \in RawInputs : RawMessageTypeFirst(c, raw)
    \/ \E c \in Conns, kind \in EchoKinds : Echo(c, kind)
    \/ \E c \in Conns : Pong(c)
    \/ \E c \in Conns, text \in TextInputs : ChatOpponentFirst(c, text)
    \/ \E c \in Conns, kind \in RelayKinds : Relay(c, kind)
    \/ \E c \in Conns : Closing(c)
    \/ \E c \in Conns : OnCloseUnchecked(c)
    \/ \E c \in Conns : BreakSend(c)

Part002Spec == Init /\ [][Part002Next]_vars

\* The liveness monitor with the handlers its terminations lead to: clients
\* connect, join with a well-formed payload, answer probes or not, and go away.
MonitorNext ==
    \/ \E c \in Conns : Connect(c)
    \/ \E c \in Conns, r \in Ratings :
           /\ ~player[c].joined
           /\ JoinQueue(c, Str(ClientId(c)), Num(r), StillClock)
    \/ \E c \in Conns : Pong(c)
    \/ Heartbeat
    \/ \E c \in Conns : Closing(c)
    \/ \E c \in Conns : OnClose(c)

MonitorSpec == Init /\ [][MonitorNext]_vars

\* ws emits "close" for every socket that was terminated or closed by its
\* peer: a pending close handler runs.
MonitorFairSpec ==
    MonitorSpec /\ \A c \in Conns : WF_vars(OnClose(c))

\* ------------------------------------------------------------------ claims
InQueue(c) == c \in Range(queue)
Live(c) == readyState[c] \in {"OPEN", "CLOSING"}
Position(s, c) == CHOOSE i \in 1..Len(s) : s[i] = c
ArrivedBefore(a, b) == Position(arrival, a) < Position(arrival, b)

\* The players a step gives an opponent to.
NewlyPaired ==
    {c \in Conns : player[c].opponent = NULL /\ player'[c].opponent # NULL}

\* The queue a pairing pass of this step works on: the old queue and the
\* player admitted by the step.
PassMembers == Range(queue) \cup (Range(arrival') \ Range(arrival))

\* a comes before b in the queue sorted ascending by rating, ties in arrival order.
SortsBefore(a, b) ==
    \/ player'[a].mmr < player'[b].mmr
    \/ player'[a].mmr = player'[b].mmr /\ Position(arrival', a) < Position(arrival', b)

\* The place of c in the queue of the step's pass, sorted by rating.
PassIndex(c) == 1 + Cardinality({u \in PassMembers \ {c} : SortsBefore(u, c)})

\* The k-th instant the step's handler read off the clock; where the clock
\* stood at its end for a read it did not get to.
ReadOf(k) == IF k <= Len(event'.reads) THEN event'.reads[k] ELSE now'

\* Whole seconds c had waited at instant t.
WaitedSecondsAt(c, t) == (t - player'[c].joinedAt) \div 1000

\* The sum of the waits the pass measures for a and its right neighbour b:
\* the first read of the handler is joinedAt, the pair at sorted index i is
\* measured at the reads 2i and 2i + 1.
MeasuredWaits(a, b) ==
    WaitedSecondsAt(a, ReadOf(2 * PassIndex(a)))
      + WaitedSecondsAt(b, ReadOf(2 * PassIndex(a) + 1))

WithinAllowed(a, b) ==
    LET growth == 10 * MeasuredWaits(a, b)
    IN Abs(player'[a].mmr - player'[b].mmr)
         <= 200 + (IF growth < 600 THEN growth ELSE 600)

\* C1: a step pairs no players or exactly two; the two are members of the
\* queue the pass worked on, are each other's opponent, have no other member
\* between them in rating order, and differ by at most
\* 200 + min(600, 10 * (wait1 + wait2)), the waits as the pass measured them.
C1_PassPairsOneAdjacentPair ==
    [][ /\ Cardinality(NewlyPaired) \in {0, 2}
        /\ \A a \in NewlyPaired, b \in NewlyPaired :
              SortsBefore(a, b) =>
                /\ {a, b} \subseteq PassMembers
                /\ player'[a].opponent = b /\ player'[b].opponent = a
                /\ WithinAllowed(a, b)
                /\ ~\E x \in PassMembers \ {a, b} :
                       SortsBefore(a, x) /\ SortsBefore(x, b) ]_vars

\* A pass has just paired two players whose ratings differ by more than the
\* base 200, out of a queue of three.
C1_Witness ==
    \E a \in Conns, b \in Conns :
        /\ sent = <<MatchStart(a, "host", player[b].player_id),
                    MatchStart(b, "client", player[a].player_id)>>
        /\ mmrDiff(player[a], player[b]) > MAX_MMR_DIFF
        /\ Len(queue) = 1

\* C3: every member of the queue has no opponent, and a player that has left
\* the queue (paired, or the survivor of an ended session) is not put back.
C3_QueuedHaveNoOpponent ==
    [][ /\ \A c \in Range(queue') : player'[c].opponent = NULL
        /\ \A c \in Conns :
              (player[c].joined /\ ~InQueue(c)) => c \notin Range(queue') ]_vars

\* A player waits in the queue while the survivor of an ended session is
\* still connected.
C3_Witness ==
    \E c \in Conns, d \in Conns :
        /\ InQueue(c)
        /\ player[d].joined /\ ~InQueue(d) /\ player[d].opponent = NULL
        /\ readyState[d] = "OPEN"
        /\ sent = <<OpponentDisconnected(d)>>

\* C5: the player sent role "host" has a rating no higher than its opponent,
\* the player sent "client" a rating no lower; on equal ratings the host is
\* the one admitted earlier.
C5_HostSortsFirst ==
    \A i \in 1..Len(sent) :
        sent[i].type = "match_start" =>
            LET me == sent[i].to
                other == player[me].opponent
                host == IF sent[i].role = "host" THEN me ELSE other
                client == IF sent[i].role = "host" THEN other ELSE me
            IN /\ sent[i].role \in {"host", "client"}
               /\ other # NULL
               /\ player[host].mmr <= player[client].mmr
               /\ player[host].mmr = player[client].mmr => ArrivedBefore(host, client)

\* Two players of equal rating have just been paired past a third that was
\* admitted between them.
C5_Witness ==
    \E a \in Conns, b \in Conns, x \in Conns :
        /\ sent = <<MatchStart(a, "host", player[b].player_id),
                    MatchStart(b, "client", player[a].player_id)>>
        /\ player[a].mmr = player[b].mmr
        /\ queue = <<x>>
        /\ ArrivedBefore(a, x) /\ ArrivedBefore(x, b)

\* C6 as claimed: players rated 1000 and 1250 on open connections are no
\* longer both waiting once their whole seconds of wait add up to 5.
C6_PairedOnceWaitReachesFive ==
    \A a \in Conns, b \in Conns :
        ( /\ InQueue(a) /\ InQueue(b)
          /\ readyState[a] = "OPEN" /\ readyState[b] = "OPEN"
          /\ player[a].mmr = 1000 /\ player[b].mmr = 1250 )
        => (now - player[a].joinedAt) \div 1000
             + (now - player[b].joinedAt) \div 1000 < 5

\* The close of connection c is processed by the step.
CloseProcessed(c) == readyState[c] = "CLOSING" /\ readyState'[c] = "CLOSED"

\* The survivor of an ended session, still connected.
Survivor(c) ==
    /\ player[c].joined /\ player[c].opponent = NULL /\ ~InQueue(c)
    /\ readyState[c] = "OPEN"

\* C2 as claimed: over all Player records, opponent references are mutual.
C2_AllRecordsSymmetric ==
    \A a \in Conns, b \in Conns :
        (player[a].joined /\ player[a].opponent = b) => player[b].opponent = a

\* C2 amended: the opponent reference of every Player whose connection has
\* not been closed is mutual; the record of a closed connection keeps the
\* reference it had.
C2_LiveRecordsSymmetric ==
    \A a \in Conns, b \in Conns :
        (Live(a) /\ player[a].joined /\ player[a].opponent = b)
        => player[b].opponent = a

\* The close of one member of a session has just been processed: the
\* survivor was told and has no opponent, the record of the member that left
\* still names it.
C2_Witness ==
    \E a \in Conns, b \in Conns :
        /\ sent = <<OpponentDisconnected(a)>>
        /\ readyState[a] = "OPEN" /\ player[a].opponent = NULL
        /\ readyState[b] = "CLOSED" /\ player[b].opponent = a

\* The step admits p2, on an open connection, while exactly p1 waits and the
\* two ratings are within 200.
AdmitsSecond(p1, p2) ==
    /\ queue = <<p1>> /\ p2 # p1
    /\ event'.kind = "join_queue" /\ event'.conn = p2 /\ event'.payload = "valid"
    /\ arrival' = Append(arrival, p2)
    /\ Abs(player[p1].mmr - player'[p2].mmr) <= 200

\* The step leaves the queue empty, p1 and p2 each other's opponent, and has
\* sent exactly one match_start to each, naming the other.
PairedAndTold(p1, p2) ==
    /\ queue' = <<>>
    /\ player'[p1].opponent = p2 /\ player'[p2].opponent = p1
    /\ Len(sent') = 2
    /\ \E i \in 1..2 :
          /\ sent'[i].to = p1 /\ sent'[3 - i].to = p2
          /\ sent'[i].type = "match_start"
          /\ sent'[3 - i].type = "match_start"
          /\ sent'[i].opponent = player'[p2].player_id
          /\ sent'[3 - i].opponent = player'[p1].player_id

\* C4 as claimed: with exactly p1 waiting, the admission of p2 on another,
\* open connection with a rating within 200 of p1's empties the queue, makes
\* the two each other's opponent and sends each one match_start naming the
\* other.
C4_AdmissionPairsAtOnce ==
    [][ \A p1 \in Conns, p2 \in Conns :
          AdmitsSecond(p1, p2) => PairedAndTold(p1, p2) ]_vars

\* C4 where p1's socket is OPEN too: the same admission pairs and tells both.
C4_AdmissionPairsOpenPlayers ==
    [][ \A p1 \in Conns, p2 \in Conns :
          (AdmitsSecond(p1, p2) /\ readyState[p1] = "OPEN")
          => PairedAndTold(p1, p2) ]_vars

\* The second admission has just paired two players whose ratings differ by
\* exactly 200 and whose identifiers differ.
C4_Witness ==
    \E p1 \in Conns, p2 \in Conns :
        /\ arrival = <<p1, p2>> /\ queue = <<>>
        /\ Len(sent) = 2
        /\ sent[1].type = "match_start" /\ sent[2].type = "match_start"
        /\ player[p1].opponent = p2 /\ player[p2].opponent = p1
        /\ mmrDiff(player[p1], player[p2]) = MAX_MMR_DIFF
        /\ player[p1].player_id # player[p2].player_id

\* C7: when the close of p2 is processed while p2 and p1 are paired and p1's
\* connection is open, the only message sent is opponent_disconnected to p1,
\* p1 has no opponent afterwards and is not in the queue.
C7_DisconnectNotifiesSurvivor ==
    [][ \A p1 \in Conns, p2 \in Conns :
          ( /\ player[p1].opponent = p2 /\ player[p2].opponent = p1
            /\ readyState[p1] = "OPEN"
            /\ CloseProcessed(p2) )
          => /\ sent' = <<OpponentDisconnected(p1)>>
             /\ player'[p1].opponent = NULL
             /\ p1 \notin Range(queue') ]_vars

\* p1 has just been told that its opponent left, with a third connection open.
C7_Witness ==
    \E p1 \in Conns, p2 \in Conns, x \in Conns :
        /\ x \notin {p1, p2} /\ readyState[x] = "OPEN"
        /\ readyState[p2] = "CLOSED" /\ player[p2].opponent = p1
        /\ readyState[p1] = "OPEN" /\ player[p1].opponent = NULL
        /\ ~InQueue(p1)
        /\ sent = <<OpponentDisconnected(p1)>>

\* C8 as claimed: a well-formed join_queue from the survivor of an ended
\* session puts it back in the queue (or pairs it in the pass that follows).
C8_SurvivorReadmitted ==
    [][ (event'.kind = "join_queue" /\ event'.payload = "valid"
           /\ Survivor(event'.conn))
        => (event'.conn \in Range(queue') \/ player'[event'.conn].opponent # NULL)
      ]_vars

\* C8 amended: the teardown does not put the survivor in the queue, no later
\* step does, and a join_queue from the survivor is answered with the error
\* "already joined" and changes neither the queue nor the players.
C8_SurvivorStaysOut ==
    [][ /\ \A p1 \in Conns, p2 \in Conns :
              ( /\ player[p1].opponent = p2 /\ player[p2].opponent = p1
                /\ readyState[p1] = "OPEN" /\ CloseProcessed(p2) )
              => p1 \notin Range(queue')
        /\ \A c \in Conns :
              Survivor(c) =>
                /\ c \notin Range(queue') /\ player'[c].opponent = NULL
                /\ (event'.kind = "join_queue" /\ event'.conn = c) =>
                      /\ sent' = <<ErrorMsg(c, "already joined")>>
                      /\ queue' = queue /\ player' = player ]_vars

\* The survivor of an ended session has just been refused a join_queue.
C8_Witness ==
    \E c \in Conns :
        /\ Survivor(c)
        /\ event.kind = "join_queue" /\ event.conn = c /\ event.payload = "valid"
        /\ sent = <<ErrorMsg(c, "already joined")>>

\* C9: a join_queue on a connection that has a Player is answered with one
\* error to that connection and changes neither the queue nor any opponent.
C9_SecondJoinRejected ==
    [][ (event'.kind = "join_queue" /\ player[event'.conn].joined)
        => /\ Len(sent') = 1
           /\ sent'[1].type = "error" /\ sent'[1].to = event'.conn
           /\ queue' = queue
           /\ \A d \in Conns : player'[d].opponent = player[d].opponent ]_vars

\* A waiting player has just been refused a second join_queue while another
\* player waits with it.
C9_Witness ==
    \E c \in Conns :
        /\ InQueue(c) /\ Len(queue) = 2
        /\ event.kind = "join_queue" /\ event.conn = c /\ event.payload = "valid"
        /\ sent = <<ErrorMsg(c, "already joined")>>

\* The two wordings of the error, in src/unnamed/part_001 and part_002.
NoOpponentForChat == {"no opponent to forward chat to", "No opponent to forward chat"}

\* C10 as claimed: a chat with string text from a connection whose player has
\* no opponent, or that has no player, is answered with one error to the
\* sender saying there is no opponent, and nothing is sent to anyone else.
C10_ChatWithoutOpponent ==
    [][ ( /\ event'.kind = "chat" /\ event'.payload = "string"
          /\ ~player[event'.conn].joined \/ player[event'.conn].opponent = NULL )
        => /\ Len(sent') = 1
           /\ sent'[1].to = event'.conn /\ sent'[1].type = "error"
           /\ sent'[1].message \in NoOpponentForChat ]_vars

\* The kinds of message that are forwarded to the opponent.
RelayClass ==
    {"offer", "answer", "ice", "chat"} \cup RelayKinds

\* C11 as claimed: a relay-class message from a player whose opponent's
\* socket is no longer OPEN is answered with an error to the sender.
C11_RelayToClosedOpponentAnswered ==
    [][ \A c \in Conns :
          ( /\ event'.kind \in RelayClass /\ event'.conn = c
            /\ player[c].joined /\ player[c].opponent # NULL
            /\ readyState[player[c].opponent] # "OPEN" )
          => \E i \in 1..Len(sent') :
                sent'[i].type = "error" /\ sent'[i].to = c ]_vars

\* The step is a timer tick.
Tick == event'.kind = "tick"

\* The interval callback called terminate() on connection c, which had seen
\* two ticks since it opened or last answered, and its close listener has not
\* run.
TerminatedByMonitor(c) ==
    c \in Clients /\ readyState[c] = "CLOSING" /\ ticksSilent[c] >= 2

\* The close teardown of connection c has run.
TornDown(c) ==
    /\ readyState[c] = "CLOSED"
    /\ ~InQueue(c)
    /\ \A o \in Conns :
          (player[c].opponent = o /\ readyState[o] = "OPEN")
          => player[o].opponent = NULL

\* C12: a socket is never OPEN after the second timer tick since it opened
\* or last answered with a pong, and the close teardown of every socket the
\* monitor terminated runs.
C12_SilentTerminatedBySecondTick ==
    /\ [](\A c \in Clients : readyState[c] = "OPEN" => ticksSilent[c] <= 1)
    /\ \A c \in Conns : TerminatedByMonitor(c) ~> TornDown(c)

\* A paired player has just been terminated by the monitor, at its second
\* silent tick.
C12_Witness ==
    /\ event.kind = "tick"
    /\ \E c \in Conns :
          /\ TerminatedByMonitor(c)
          /\ player[c].opponent # NULL
          /\ readyState[player[c].opponent] = "OPEN"

\* C13: a timer tick leaves OPEN every socket that has answered since the
\* last tick (or opened since).
C13_AnsweringNeverTerminated ==
    [][ Tick => \A c \in Clients :
                   (readyState[c] = "OPEN" /\ ticksSilent[c] = 0)
                   => readyState'[c] = "OPEN" ]_vars

\* A tick has just terminated one socket and spared another that had
\* answered its probe.
C13_Witness ==
    /\ event.kind = "tick"
    /\ \E c \in Conns, d \in Conns :
          /\ TerminatedByMonitor(c)
          /\ d \in Clients /\ readyState[d] = "OPEN" /\ ticksSilent[d] = 1
          /\ d < c

\* C14 as claimed: a socket that left one probe unanswered for a full
\* interval is not terminated at the following tick.
C14_OneMissedProbeTolerated ==
    [][ Tick => \A c \in Clients :
                   (readyState[c] = "OPEN" /\ ticksSilent[c] = 1)
                   => readyState'[c] = "OPEN" ]_vars

\* C14 amended: a socket that has seen one tick (its probe) and has not
\* answered since is terminated at the following tick; a socket is terminated
\* only after it has had that one interval.
C14_TerminatedAtFollowingTick ==
    [][ Tick => \A c \in Clients :
                   readyState[c] = "OPEN" =>
                      /\ ticksSilent[c] >= 1 => readyState'[c] = "CLOSING"
                      /\ readyState'[c] # "OPEN" => ticksSilent[c] >= 1 ]_vars

\* A tick has just terminated a waiting player that left its probe unanswered.
C14_Witness ==
    /\ event.kind = "tick"
    /\ \E c \in Conns : TerminatedByMonitor(c) /\ InQueue(c)


\* A join_queue message whose rating is missing or not finite arrived on a
\* connection that has created no Player.
BadRatingJoin(c) ==
    /\ event'.kind = "join_queue"
    /\ event'.conn = c
    /\ event'.payload \in {"no rating", "infinite rating"}
    /\ ~player[c].joined

\* The handler answered c with one error and changed nothing else.
RejectedOnly(c) ==
    /\ Len(sent') = 1
    /\ sent'[1].type = "error"
    /\ sent'[1].to = c
    /\ player' = player
    /\ queue' = queue
    /\ readyState'[c] = "OPEN"

\* C15: a join_queue request whose rating is not a finite number is answered
\* with a validation error to the sender and nothing else: no Player is
\* created, the queue is unchanged, nobody is paired, and the connection stays
\* open without a Player, so that it may join later.
C15_NonFiniteRatingRejected ==
    [][ \A c \in Conns : BadRatingJoin(c) => RejectedOnly(c) ]_vars

\* A well-typed join_queue message whose identifier is the empty string
\* arrived on a connection that has created no Player: a join_queue with a
\* string identifier carries ClientId of its connection.
EmptyIdJoin(c) ==
    /\ event'.kind = "join_queue"
    /\ event'.conn = c
    /\ event'.payload = "valid"
    /\ ClientId(c) = ""
    /\ ~player[c].joined

\* C16: a join_queue request whose identifier is the empty string is answered
\* with a validation error to the sender; no Player is created and the queue
\* is unchanged.
C16_EmptyIdentifierRejected ==
    [][ \A c \in Conns : EmptyIdJoin(c) =>
            /\ \E i \in 1..Len(sent') : sent'[i].type = "error" /\ sent'[i].to = c
            /\ ~player'[c].joined
            /\ queue' = queue ]_vars

\* Clients that connect, join with a well-formed payload, send frames of any
\* shape and go away.
RawNext ==
    \/ \E c \in Conns : Connect(c)
    \/ \E c \in Conns, r \in Ratings :
           /\ ~player[c].joined
           /\ JoinQueue(c, Str(ClientId(c)), Num(r), StillClock)
    \/ \E c \in Conns, raw \in RawInputs : RawMessage(c, raw)
    \/ \E c \in Conns : Closing(c)
    \/ \E c \in Conns : OnClose(c)

RawSpec == Init /\ [][RawNext]_vars

\* C17: whatever the payload of an inbound frame, the handler answers the
\* sender with an error or does nothing; it raises no unhandled failure, the
\* queue and the players' records are as before, and every connection that
\* was open still is, so that its later events are processed.
C17_AnyPayloadHandled ==
    [][ event'.kind = "raw" =>
            /\ \A i \in 1..Len(sent') :
                   sent'[i].type = "error" /\ sent'[i].to = event'.conn
            /\ queue' = queue
            /\ player' = player
            /\ readyState' = readyState ]_vars

\* ---------------------------------------------------- where a live Player is
Waiting(c) == InQueue(c) /\ player[c].opponent = NULL
InSession(c) == ~InQueue(c) /\ player[c].opponent # NULL

\* c is out of the queue without an opponent because the close of its
\* opponent was processed: the record of the closed connection still names c.
LeftBehind(c) ==
    /\ ~InQueue(c) /\ player[c].opponent = NULL
    /\ \E o \in Conns : readyState[o] = "CLOSED" /\ player[o].opponent = c

\* C18 as claimed: every Player whose connection has not closed is in the
\* queue with no opponent or out of the queue with an opponent.
C18_LiveInQueueOrSession ==
    \A c \in Conns :
        (Live(c) /\ player[c].joined) => (Waiting(c) \/ InSession(c))

\* C18 amended: every Player whose connection has not closed is in the queue
\* with no opponent, or out of the queue with an opponent, or out of the
\* queue with no opponent after the close of its opponent was processed; a
\* connection that never joined has no Player and is in no queue.
C18_LiveInQueueSessionOrLeftBehind ==
    \A c \in Conns :
        /\ (Live(c) /\ player[c].joined)
              => (Waiting(c) \/ InSession(c) \/ LeftBehind(c))
        /\ ~player[c].joined => (~InQueue(c) /\ player[c].opponent = NULL)

\* A close has just been processed while one player waits in the queue and
\* another, its connection open, has been left behind by its opponent.
C18_Witness ==
    \E a \in Conns, b \in Conns :
        /\ a # b
        /\ Live(a) /\ Waiting(a) /\ player[a].joined
        /\ readyState[b] = "OPEN" /\ player[b].joined /\ LeftBehind(b)
        /\ event.kind = "close"

\* ------------------------------------------------- close of a waiting player
\* The connection of c is closed and c was never given an opponent.
ClosedUnmatched(c) ==
    readyState[c] = "CLOSED" /\ player[c].joined /\ player[c].opponent = NULL

\* C19: the step that processes the close of a queued player without
\* opponent takes it out of the queue and sends nothing; from then on no
\* step puts it back in the queue or gives it an opponent.
C19_ClosedWaitingPlayerRemoved ==
    [][ \A c \in Conns :
          /\ (CloseProcessed(c) /\ Waiting(c))
                => (~InQueue(c)' /\ sent' = <<>> /\ ClosedUnmatched(c)')
          /\ ClosedUnmatched(c) => (~InQueue(c)' /\ player'[c].opponent = NULL) ]_vars

\* A pairing pass has just paired a and b; c, which joined before both and
\* closed while it waited, is in no queue and has no opponent.
C19_Witness ==
    \E c \in Conns, a \in Conns, b \in Conns :
        /\ ClosedUnmatched(c) /\ ~InQueue(c)
        /\ a # b /\ player[a].opponent = b /\ player[b].opponent = a
        /\ ArrivedBefore(c, a) /\ ArrivedBefore(c, b)
        /\ event.kind = "join_queue"
        /\ Len(sent) = 2 /\ sent[1].type = "match_start"

\* ------------------------------------------------------ a send that raises
\* C20: when a send of the last step raised, the socket it was for has been
\* terminated by the end of the step: it is no longer open, its close
\* handler is due, and nothing more is sent to it.
C20_RaisedSendTerminates ==
    \A i \in 1..Len(sent) : sent[i].raised => readyState[sent[i].to] # "OPEN"

\* The handlers of src/server.js with sockets that may start to throw on send.
FaultNext ==
    \/ \E c \in Conns : Connect(c)
    \/ \E c \in Conns, r \in Part002Ratings :
           /\ MayJoin(c, MaxJoins)
           /\ JoinQueue(c, Str(ClientId(c)), Num(r), StillClock)
    \/ \E c \in Conns, type \in SignalTypes : Signal(c, type, Str("v=0"))
    \/ \E c \in Conns : Pong(c)
    \/ \E c \in Conns : Closing(c)
    \/ \E c \in Conns : OnClose(c)
    \/ \E c \in Conns : BreakSend(c)

FaultSpec == Init /\ [][FaultNext]_vars

\* The safeSend of src/server.js does what C20 asks: a step that sends to a
\* socket that throws leaves that socket CLOSING, with its close handler due.
ServerSendTerminates ==
    [][ \A c \in sendFails :
          (\E i \in 1..Len(sent') : sent'[i].to = c) => readyState'[c] = "CLOSING"
      ]_vars

\* ------------------------------------------------------- unrecognized kinds
\* C21: a message whose type is none of the recognized ones is answered with
\* one error to its sender, and the queue, every Player record and every
\* connection are as before.
C21_UnknownKindAnswered ==
    [][ (event'.kind = "raw" /\ event'.payload = "unknown type") =>
            /\ Len(sent') = 1
            /\ sent'[1].type = "error" /\ sent'[1].to = event'.conn
            /\ queue' = queue
            /\ player' = player
            /\ readyState' = readyState ]_vars

\* ------------------------------------------------ which pair a pass chooses
\* a and b are neighbours, a first, in the pass's queue sorted by rating.
AdjacentInPass(a, b) ==
    /\ a \in PassMembers /\ b \in PassMembers
    /\ SortsBefore(a, b)
    /\ ~\E x \in PassMembers \ {a, b} : SortsBefore(a, x) /\ SortsBefore(x, b)

\* C22: when a pass pairs a and b, no adjacent pair that sorts before them
\* was within its allowed difference when the pass measured it, whatever
\* pairs after them are; every other member of the pass stays in the queue
\* without opponent; and only a step that admits a player pairs anyone.
C22_LeftmostQualifyingPairOnly ==
    [][ \A a \in Conns, b \in Conns :
          (NewlyPaired = {a, b} /\ a # b /\ SortsBefore(a, b)) =>
             /\ \A x \in Conns, y \in Conns :
                   (AdjacentInPass(x, y) /\ SortsBefore(x, a))
                       => ~WithinAllowed(x, y)
             /\ \A x \in PassMembers \ {a, b} :
                   x \in Range(queue') /\ player'[x].opponent = NULL
             /\ event'.kind = "join_queue" ]_vars

\* A pass has just paired a and b and left x in the queue, although b and x,
\* neighbours in the sorted queue, are within the base difference.
C22_Witness ==
    \E a \in Conns, b \in Conns, x \in Conns :
        /\ sent = <<MatchStart(a, "host", player[b].player_id),
                    MatchStart(b, "client", player[a].player_id)>>
        /\ queue = <<x>>
        /\ player[a].mmr <= player[b].mmr /\ player[b].mmr <= player[x].mmr
        /\ mmrDiff(player[b], player[x]) <= MAX_MMR_DIFF

\* ------------------------------------------------- the allowance as claimed
\* Milliseconds since c joined, at instant t.
ElapsedMs(c, t) == t - player'[c].joinedAt

\* The ratings of a and its right neighbour b differ by at most
\* 200 + min(600, 10 * (w1 + w2)) with w1, w2 the seconds elapsed when the
\* pass measures the pair, fractions included; in milli-units.
WithinClaimed(a, b) ==
    LET growth == 10 * (ElapsedMs(a, ReadOf(2 * PassIndex(a)))
                          + ElapsedMs(b, ReadOf(2 * PassIndex(a) + 1)))
    IN (Abs(player'[a].mmr - player'[b].mmr) - 200) * 1000
         <= (IF growth < 600000 THEN growth ELSE 600000)

\* C23: a pass pairs the first adjacent pair of its sorted queue whose ratings
\* differ by at most 200 + min(600, 10 * (w1 + w2)), w1 and w2 the seconds
\* elapsed since each joined: 1000 and 1250 are paired by a pass at which
\* their elapsed waits add up to 5 seconds, such as 3.5 s and 1.5 s.
C23_PairedWithinElapsedAllowance ==
    [][ arrival' # arrival =>
          \A x \in Conns, y \in Conns :
             ( /\ AdjacentInPass(x, y) /\ WithinClaimed(x, y)
               /\ \A u \in Conns, v \in Conns :
                     (AdjacentInPass(u, v) /\ SortsBefore(u, x))
                         => ~WithinClaimed(u, v) )
             => NewlyPaired = {x, y} ]_vars

\* ------------------------------------------------------ the widest pairing
\* C24: the ratings of two players a step pairs differ by at most 800, however
\* long they waited, and by at most 200 when the pass measured no whole
\* second of wait for either; the ratings of a record and of the opponent it
\* names never differ by more.
C24_PairedWithinCap ==
    [][ /\ \A a \in Conns, b \in Conns :
              (NewlyPaired = {a, b} /\ a # b /\ SortsBefore(a, b)) =>
                 /\ Abs(player'[a].mmr - player'[b].mmr) <= 800
                 /\ MeasuredWaits(a, b) = 0
                       => Abs(player'[a].mmr - player'[b].mmr) <= 200
        /\ \A a \in Conns :
              player'[a].opponent # NULL =>
                 Abs(player'[a].mmr - player'[player'[a].opponent].mmr) <= 800
      ]_vars

\* A pass has just paired two players more than 600 apart, both of which had
\* waited a minute, and left in the queue the player whose admission ran it.
C24_Witness ==
    \E a \in Conns, b \in Conns, x \in Conns :
        /\ sent = <<MatchStart(a, "host", player[b].player_id),
                    MatchStart(b, "client", player[a].player_id)>>
        /\ mmrDiff(player[a], player[b]) > ALLOWANCE_CAP
        /\ now - player[a].joinedAt > 60000 /\ now - player[b].joinedAt > 60000
        /\ queue = <<x>>
        /\ player[x].joinedAt = now

\* ------------------------------------------- pairing and terminated sockets
\* C25: every player a step pairs has an open connection when the pass runs:
\* a queued player whose socket was terminated, and whose close handler has
\* not run yet, is not paired with a player admitted in between.
C25_PairedPlayersAreOpen ==
    [][ \A c \in NewlyPaired : readyState[c] = "OPEN" ]_vars

\* ------------------------------------------------- two members per session
\* C26: no Player record names itself as opponent, and no Player is named as
\* opponent by two different records, the records of closed connections
\* included.
C26_SessionsHaveTwoMembers ==
    /\ \A a \in Conns : player[a].opponent # a
    /\ \A a \in Conns, b \in Conns, c \in Conns :
          (player[a].opponent = c /\ player[b].opponent = c) => a = b

\* The admission of x has just run a pass while a and b are in a session:
\* x is within the base difference of b and waits alone.
C26_Witness ==
    \E a \in Conns, b \in Conns, x \in Conns :
        /\ a # b /\ player[a].opponent = b /\ player[b].opponent = a
        /\ event.kind = "join_queue" /\ event.conn = x /\ event.payload = "valid"
        /\ queue = <<x>>
        /\ mmrDiff(player[x], player[b]) <= MAX_MMR_DIFF

\* ---------------------------------------------------------- relay isolation
\* The messages of the step that are not error notifications.
Forwarded == {i \in 1..Len(sent') : sent'[i].type # "error"}

\* C27: of a relay-class message from connection a, at most one copy is
\* handed to a socket, and only to the open socket of the player that is a's
\* opponent and names a as its own: not to a third connection, a former
\* opponent or a player in the queue. An error goes to a alone.
C27_RelayOnlyToCurrentOpponent ==
    [][ \A a \in Conns :
          (event'.kind \in RelayClass /\ event'.conn = a) =>
             /\ Cardinality(Forwarded) <= 1
             /\ \A i \in Forwarded :
                   LET to == sent'[i].to
                   IN /\ to # a
                      /\ player[a].joined /\ player[a].opponent = to
                      /\ player[to].opponent = a
                      /\ readyState[to] = "OPEN"
                      /\ ~InQueue(to)
             /\ \A i \in 1..Len(sent') \ Forwarded : sent'[i].to = a ]_vars

\* A chat of a has just been handed to its opponent b while a third player,
\* its connection open, waits in the queue.
C27_Witness ==
    \E a \in Conns, b \in Conns, x \in Conns :
        /\ event.kind = "chat" /\ event.conn = a
        /\ sent = <<ChatMsg(b, player[a].player_id, "hi")>>
        /\ player[a].opponent = b
        /\ x \notin {a, b} /\ readyState[x] = "OPEN" /\ queue = <<x>>
=============================================================================
